---- MODULE Spec2Model ----
(***************************************************************************)
(* Model of casadi::SparsityInterface<MatType>                             *)
(* (casadi/core/matrix/sparsity_interface.hpp): the generic free functions *)
(* horzcat, vertcat, horzsplit, vertsplit, blkdiag and mul, written once   *)
(* against the zz_ primitives of a concrete matrix type.                   *)
(*                                                                         *)
(* A matrix is a record [size1, size2, nz]: size1 rows, size2 columns and  *)
(* nz a function from the sparsity pattern (a set of <<row, col>>, both    *)
(* counted from 0) to the element stored there.                            *)
(*                                                                         *)
(* Every call ends in an outcome record                                    *)
(*   [kind, val, list, err, calls]                                         *)
(* kind "value" (val is the matrix returned), "list" (list is the vector   *)
(* returned) or "error" (err names the exception).  calls is the sequence  *)
(* of member/primitive invocations the call made, in order.                *)
(***************************************************************************)
EXTENDS Integers, Sequences, FiniteSets, TLC

VARIABLES pc, op, X, Y, Z, offset, incr, v, ret

vars == <<pc, op, X, Y, Z, offset, incr, v, ret>>

(***************************************************************************)
(* Bounds of the model.                                                    *)
(***************************************************************************)
\* largest row/column count of a matrix handed to a split
MaxDim == 2
\* largest increment handed to the increment forms (the smallest is -1)
MaxIncr == 3
\* longest vector of matrices handed to a list form
MaxList == 3

(***************************************************************************)
(* Matrices.                                                               *)
(***************************************************************************)
Cells(r, c) == (0 .. (r - 1)) \X (0 .. (c - 1))

\* the matrix of shape r x c with pattern S whose entries are numbered
\* row by row, so that no two positions of it hold the same element
Mat(r, c, S) ==
  [size1 |-> r, size2 |-> c, nz |-> [p \in S |-> 1 + (p[1] * c) + p[2]]]

MatsOfDim(d) ==
  UNION { UNION { { Mat(r, c, S) : S \in SUBSET Cells(r, c) } : c \in 0 .. d } : r \in 0 .. d }

Mats == MatsOfDim(MaxDim)

NoMat == [size1 |-> 0, size2 |-> 0, nz |-> [p \in {} |-> 0]]

Sparsity(m) == DOMAIN m.nz

\* the element at (i, j), 0 where the pattern has no entry
Elem(m, i, j) == IF <<i, j>> \in Sparsity(m) THEN m.nz[<<i, j>>] ELSE 0

(***************************************************************************)
(* Outcomes.                                                               *)
(***************************************************************************)
\* one invocation: the name, the matrices and the integers handed over
Call(fn, mats, ints) == [fn |-> fn, mats |-> mats, ints |-> ints]

Value(m, calls) ==
  [kind |-> "value", val |-> m, list |-> <<>>, err |-> "", calls |-> calls]

List(l, calls) ==
  [kind |-> "list", val |-> NoMat, list |-> l, err |-> "", calls |-> calls]

Error(e, calls) ==
  [kind |-> "error", val |-> NoMat, list |-> <<>>, err |-> e, calls |-> calls]

NoRet == [kind |-> "none", val |-> NoMat, list |-> <<>>, err |-> "", calls |-> <<>>]

\* an outcome o reached after the invocations `before`
After(before, o) == [o EXCEPT !.calls = before \o o.calls]

Names(calls) == [i \in 1 .. Len(calls) |-> calls[i].fn]

(***************************************************************************)
(* The primitives of the concrete matrix type (MatType::zz_...), and the   *)
(* helpers of std_vector_tools.hpp.                                        *)
(***************************************************************************)
\* what a raw primitive does with an empty vector is left to the matrix
\* type: a 0 x 0 matrix, or an exception
EmptyPolicies == {"zero", "error"}

Empty(pol) ==
  IF pol = "zero" THEN Value(NoMat, <<>>) ELSE Error("InvalidArgument", <<>>)

RECURSIVE SumSize1(_, _)
\* rows of the first k matrices of w together
SumSize1(w, k) == IF k = 0 THEN 0 ELSE SumSize1(w, k - 1) + w[k].size1

RECURSIVE SumSize2(_, _)
\* columns of the first k matrices of w together
SumSize2(w, k) == IF k = 0 THEN 0 ELSE SumSize2(w, k - 1) + w[k].size2

\* the matrix of w that holds global column j / global row i
ColOwner(w, j) == CHOOSE k \in 1 .. Len(w) : SumSize2(w, k - 1) <= j /\ j < SumSize2(w, k)
RowOwner(w, i) == CHOOSE k \in 1 .. Len(w) : SumSize1(w, k - 1) <= i /\ i < SumSize1(w, k)

HcatMat(w) ==
  LET S == UNION { { <<p[1], p[2] + SumSize2(w, k - 1)>> : p \in Sparsity(w[k]) } : k \in 1 .. Len(w) }
  IN  [size1 |-> w[1].size1,
       size2 |-> SumSize2(w, Len(w)),
       nz |-> [q \in S |-> LET k == ColOwner(w, q[2])
                           IN  w[k].nz[<<q[1], q[2] - SumSize2(w, k - 1)>>]]]

VcatMat(w) ==
  LET S == UNION { { <<p[1] + SumSize1(w, k - 1), p[2]>> : p \in Sparsity(w[k]) } : k \in 1 .. Len(w) }
  IN  [size1 |-> SumSize1(w, Len(w)),
       size2 |-> w[1].size2,
       nz |-> [q \in S |-> LET k == RowOwner(w, q[1])
                           IN  w[k].nz[<<q[1] - SumSize1(w, k - 1), q[2]>>]]]

ZzHorzcat(w, pol) ==
  IF Len(w) = 0 THEN Empty(pol)
  ELSE IF \E k \in 1 .. Len(w) : w[k].size1 # w[1].size1
       THEN Error("ShapeMismatch", <<>>)
       ELSE Value(HcatMat(w), <<>>)

ZzVertcat(w, pol) ==
  IF Len(w) = 0 THEN Empty(pol)
  ELSE IF \E k \in 1 .. Len(w) : w[k].size2 # w[1].size2
       THEN Error("ShapeMismatch", <<>>)
       ELSE Value(VcatMat(w), <<>>)

\* columns lo .. hi-1 of x / rows lo .. hi-1 of x
ColSlice(x, lo, hi) ==
  LET S == { <<q[1], q[2] - lo>> : q \in { q \in Sparsity(x) : lo <= q[2] /\ q[2] < hi } }
  IN  [size1 |-> x.size1, size2 |-> hi - lo,
       nz |-> [p \in S |-> x.nz[<<p[1], p[2] + lo>>]]]

RowSlice(x, lo, hi) ==
  LET S == { <<q[1] - lo, q[2]>> : q \in { q \in Sparsity(x) : lo <= q[1] /\ q[1] < hi } }
  IN  [size1 |-> hi - lo, size2 |-> x.size2,
       nz |-> [p \in S |-> x.nz[<<p[1] + lo, p[2]>>]]]

\* boundaries a split accepts for a dimension of size n: the first is 0,
\* none decreases, none lies beyond n
InRange(o, n) ==
  /\ Len(o) >= 1
  /\ o[1] = 0
  /\ \A i \in 1 .. Len(o) - 1 : o[i] <= o[i + 1]
  /\ \A i \in 1 .. Len(o) : o[i] <= n

\* upper end of group i: the next boundary, the last group runs to the end
GroupEnd(o, i, n) == IF i = Len(o) - 1 THEN n ELSE o[i + 1]

ZzHorzsplit(x, o) ==
  IF ~InRange(o, x.size2) THEN Error("ContractViolation", <<>>)
  ELSE List([i \in 1 .. Len(o) - 1 |-> ColSlice(x, o[i], GroupEnd(o, i, x.size2))], <<>>)

ZzVertsplit(x, o) ==
  IF ~InRange(o, x.size1) THEN Error("ContractViolation", <<>>)
  ELSE List([i \in 1 .. Len(o) - 1 |-> RowSlice(x, o[i], GroupEnd(o, i, x.size1))], <<>>)

BlkdiagMat(w) ==
  LET S == UNION { { <<p[1] + SumSize1(w, k - 1), p[2] + SumSize2(w, k - 1)>> : p \in Sparsity(w[k]) }
                   : k \in 1 .. Len(w) }
  IN  [size1 |-> SumSize1(w, Len(w)),
       size2 |-> SumSize2(w, Len(w)),
       nz |-> [q \in S |-> LET k == RowOwner(w, q[1])
                           IN  w[k].nz[<<q[1] - SumSize1(w, k - 1), q[2] - SumSize2(w, k - 1)>>]]]

ZzBlkdiag(w, pol) ==
  IF Len(w) = 0 THEN Empty(pol) ELSE Value(BlkdiagMat(w), <<>>)

RECURSIVE Dot(_, _, _, _, _)
\* sum over the k below n for which x has (i, k) and y has (k, j)
Dot(x, y, i, j, n) ==
  IF n = 0 THEN 0
  ELSE Dot(x, y, i, j, n - 1)
       + (IF <<i, n - 1>> \in Sparsity(x) /\ <<n - 1, j>> \in Sparsity(y)
          THEN x.nz[<<i, n - 1>>] * y.nz[<<n - 1, j>>]
          ELSE 0)

\* X*Y: a position is in the pattern when some term of its sum is structural
MtimesMat(x, y) ==
  LET S == { q \in Cells(x.size1, y.size2) :
               \E k \in 0 .. x.size2 - 1 : <<q[1], k>> \in Sparsity(x) /\ <<k, q[2]>> \in Sparsity(y) }
  IN  [size1 |-> x.size1, size2 |-> y.size2,
       nz |-> [q \in S |-> Dot(x, y, q[1], q[2], x.size2)]]

ZzMtimes(x, y) ==
  IF x.size2 # y.size1 THEN Error("ShapeMismatch", <<>>)
  ELSE Value(MtimesMat(x, y), <<>>)

\* Z + (X*Y restricted to the pattern of Z)
ZzMtimes3(x, y, z) ==
  IF x.size2 # y.size1 THEN Error("ShapeMismatch", <<>>)
  ELSE IF x.size1 # z.size1 \/ y.size2 # z.size2 THEN Error("ShapeMismatch", <<>>)
  ELSE LET xy == MtimesMat(x, y)
       IN  Value([size1 |-> z.size1, size2 |-> z.size2,
                  nz |-> [q \in Sparsity(z) |->
                            z.nz[q] + (IF q \in Sparsity(xy) THEN xy.nz[q] ELSE 0)]], <<>>)

\* range(start, stop, step): start, start+step, ... below stop
range(start, stop, step) ==
  LET n == IF stop > start THEN ((stop - start) + (step - 1)) \div step ELSE 0
  IN  [i \in 1 .. n |-> start + ((i - 1) * step)]

(***************************************************************************)
(* SparsityInterface: concatenation and splitting.                         *)
(***************************************************************************)
horzcat(w, pol) == After(<<Call("zz_horzcat", <<>>, <<>>)>>, ZzHorzcat(w, pol))

\* horzcat2 with the two elements stored in the opposite order
horzcat2Swapped(x, y, pol) ==
  LET v0 == <<NoMat, NoMat>>
      v1 == [v0 EXCEPT ![1] = y]
      v2 == [v1 EXCEPT ![2] = x]
  IN  horzcat(v2, pol)

horzcat2(x, y, pol) ==
  LET v0 == <<NoMat, NoMat>>
      v1 == [v0 EXCEPT ![1] = x]
      v2 == [v1 EXCEPT ![2] = y]
  IN  horzcat(v2, pol)

vertcat(w, pol) == After(<<Call("zz_vertcat", <<>>, <<>>)>>, ZzVertcat(w, pol))

vertcat2(x, y, pol) ==
  LET v0 == <<NoMat, NoMat>>
      v1 == [v0 EXCEPT ![1] = x]
      v2 == [v1 EXCEPT ![2] = y]
  IN  vertcat(v2, pol)

horzsplit(x, o) == After(<<Call("zz_horzsplit", <<>>, o)>>, ZzHorzsplit(x, o))

\* horzsplitIncr with the increment checked after the size is read
horzsplitIncrLateCheck(x, inc) ==
  LET sz2 == x.size2
  IN  IF ~(inc >= 1) THEN Error("InvalidArgument", <<Call("size2", <<>>, <<>>)>>)
      ELSE LET offset2 == Append(range(0, sz2, inc), sz2)
           IN  After(<<Call("size2", <<>>, <<>>), Call("range", <<>>, <<0, sz2, inc>>),
                       Call("push_back", <<>>, <<sz2>>)>>,
                     horzsplit(x, offset2))

\* horzsplitIncr with the range running one past the last column
horzsplitIncrPastEnd(x, inc) ==
  IF ~(inc >= 1) THEN Error("InvalidArgument", <<>>)
  ELSE LET sz2 == x.size2
           offset2 == Append(range(0, sz2 + 1, inc), sz2)
       IN  After(<<Call("size2", <<>>, <<>>), Call("range", <<>>, <<0, sz2 + 1, inc>>),
                   Call("push_back", <<>>, <<sz2>>)>>,
                 horzsplit(x, offset2))

horzsplitIncr(x, inc) ==
  IF ~(inc >= 1) THEN Error("InvalidArgument", <<>>)
  ELSE LET sz2 == x.size2
           offset2 == Append(range(0, sz2, inc), sz2)
       IN  After(<<Call("size2", <<>>, <<>>), Call("range", <<>>, <<0, sz2, inc>>),
                   Call("push_back", <<>>, <<sz2>>)>>,
                 horzsplit(x, offset2))

vertsplit(x, o) == After(<<Call("zz_vertsplit", <<>>, o)>>, ZzVertsplit(x, o))

\* vertsplitIncr without the final boundary appended
vertsplitIncrNoPushBack(x, inc) ==
  IF ~(inc >= 1) THEN Error("InvalidArgument", <<>>)
  ELSE LET sz1 == x.size1
           offset1 == range(0, sz1, inc)
       IN  After(<<Call("size1", <<>>, <<>>), Call("range", <<>>, <<0, sz1, inc>>)>>,
                 vertsplit(x, offset1))

vertsplitIncr(x, inc) ==
  IF ~(inc >= 1) THEN Error("InvalidArgument", <<>>)
  ELSE LET sz1 == x.size1
           offset1 == Append(range(0, sz1, inc), sz1)
       IN  After(<<Call("size1", <<>>, <<>>), Call("range", <<>>, <<0, sz1, inc>>),
                   Call("push_back", <<>>, <<sz1>>)>>,
                 vertsplit(x, offset1))

(***************************************************************************)
(* SparsityInterface: block diagonal and products.                         *)
(***************************************************************************)
\* blkdiag handing its vector to the horizontal concatenation
blkdiagAsHorzcat(A, pol) == After(<<Call("zz_horzcat", <<>>, <<>>)>>, ZzHorzcat(A, pol))

blkdiag(A, pol) == After(<<Call("zz_blkdiag", <<>>, <<>>)>>, ZzBlkdiag(A, pol))

blkdiag2(x, y, pol) ==
  LET v0 == <<NoMat, NoMat>>
      v1 == [v0 EXCEPT ![1] = x]
      v2 == [v1 EXCEPT ![2] = y]
  IN  blkdiag(v2, pol)

mul2(x, y) == After(<<Call("zz_mtimes", <<x, y>>, <<>>)>>, ZzMtimes(x, y))

\* mul(X, Y, Z) adding the whole product to Z, pattern of Z or not
mul3Unmasked(x, y, z) ==
  LET xy == ZzMtimes(x, y)
  IN  After(<<Call("zz_mtimes", <<x, y, z>>, <<>>)>>,
            IF xy.kind = "error" \/ x.size1 # z.size1 \/ y.size2 # z.size2
            THEN Error("ShapeMismatch", <<>>)
            ELSE Value([size1 |-> z.size1, size2 |-> z.size2,
                        nz |-> [q \in Sparsity(z) \cup Sparsity(xy.val) |->
                                  Elem(z, q[1], q[2]) + Elem(xy.val, q[1], q[2])]], <<>>))

mul3(x, y, z) == After(<<Call("zz_mtimes", <<x, y, z>>, <<>>)>>, ZzMtimes3(x, y, z))

RECURSIVE mulLoopSwapped(_, _, _)
RECURSIVE mulLoopPartial(_, _, _)
\* the loop with the operands of the product exchanged
mulLoopSwapped(r, args, i) ==
  IF ~(i < Len(args)) THEN r
  ELSE LET arg == args[i + 1]
           m == After(r.calls \o <<Call("args[]", <<>>, <<i>>)>>, mul2(arg, r.val))
       IN  IF m.kind = "error" THEN m ELSE mulLoopSwapped(m, args, i + 1)

\* the loop answering a failed product with the result so far
mulLoopPartial(r, args, i) ==
  IF ~(i < Len(args)) THEN r
  ELSE LET arg == args[i + 1]
           m == After(r.calls \o <<Call("args[]", <<>>, <<i>>)>>, mul2(r.val, arg))
       IN  IF m.kind = "error" THEN r ELSE mulLoopPartial(m, args, i + 1)

RECURSIVE mulLoop(_, _, _)
\* the loop of mul(args) at index i (from 0), r the outcome holding ret;
\* an exception of the product leaves the loop and the function
mulLoop(r, args, i) ==
  IF ~(i < Len(args)) THEN r
  ELSE LET arg == args[i + 1]
           m == After(r.calls \o <<Call("args[]", <<>>, <<i>>)>>, mul2(r.val, arg))
       IN  IF m.kind = "error" THEN m ELSE mulLoop(m, args, i + 1)

\* mul answering the empty list with a 0 x 0 matrix
mulEmptyIsZero(args) ==
  IF ~(Len(args) >= 1) THEN Value(NoMat, <<>>)
  ELSE mulLoop(Value(args[1], <<Call("args[]", <<>>, <<0>>)>>), args, 1)

mul(args) ==
  IF ~(Len(args) >= 1) THEN Error("InvalidArgument", <<>>)
  ELSE mulLoop(Value(args[1], <<Call("args[]", <<>>, <<0>>)>>), args, 1)

(***************************************************************************)
(* The calls a client makes.  A call takes its arguments from the sets     *)
(* below, or (the concatenations) from the vector the call before it       *)
(* returned; op lists the calls made since the last Reset.                 *)
(***************************************************************************)
NonDecreasing(o) == \A i \in 1 .. Len(o) - 1 : o[i] <= o[i + 1]

\* the offset vectors handed to the explicit-offset splits
Offsets ==
  { o \in UNION { [1 .. n -> 0 .. MaxDim] : n \in 1 .. MaxDim + 2 } : NonDecreasing(o) }

Incrs == (0 - 1) .. MaxIncr

\* the dense matrix of every shape: the matrices of the vectors handed to
\* the list forms
Dense == UNION { { Mat(r, c, Cells(r, c)) : c \in 0 .. MaxDim } : r \in 0 .. MaxDim }

\* every shape with all of its entries or with none: the second operand of
\* the two-argument forms (the first is any matrix)
FullOrEmpty == Dense \cup UNION { { Mat(r, c, {}) : c \in 0 .. MaxDim } : r \in 0 .. MaxDim }

Lists == UNION { [1 .. n -> Dense] : n \in 0 .. MaxList }

Init ==
  /\ pc = "idle"
  /\ op = <<>>
  /\ X = NoMat
  /\ Y = NoMat
  /\ Z = NoMat
  /\ offset = <<>>
  /\ incr = 1
  /\ v = <<>>
  /\ ret = NoRet

Reset ==
  /\ pc = "done"
  /\ pc' = "idle"
  /\ op' = <<>>
  /\ X' = NoMat
  /\ Y' = NoMat
  /\ Z' = NoMat
  /\ offset' = <<>>
  /\ incr' = 1
  /\ v' = <<>>
  /\ ret' = NoRet

HorzsplitOffset ==
  /\ pc = "idle"
  /\ \E x \in Mats, o \in Offsets :
       /\ X' = x
       /\ offset' = o
       /\ ret' = horzsplit(x, o)
  /\ op' = <<"horzsplit">>
  /\ pc' = "done"
  /\ UNCHANGED <<Y, Z, incr, v>>

HorzsplitIncr ==
  /\ pc = "idle"
  /\ \E x \in Mats, inc \in Incrs :
       /\ X' = x
       /\ incr' = inc
       /\ ret' = horzsplitIncr(x, inc)
  /\ op' = <<"horzsplit_incr">>
  /\ pc' = "done"
  /\ UNCHANGED <<Y, Z, offset, v>>

VertsplitOffset ==
  /\ pc = "idle"
  /\ \E x \in Mats, o \in Offsets :
       /\ X' = x
       /\ offset' = o
       /\ ret' = vertsplit(x, o)
  /\ op' = <<"vertsplit">>
  /\ pc' = "done"
  /\ UNCHANGED <<Y, Z, incr, v>>

VertsplitIncr ==
  /\ pc = "idle"
  /\ \E x \in Mats, inc \in Incrs :
       /\ X' = x
       /\ incr' = inc
       /\ ret' = vertsplitIncr(x, inc)
  /\ op' = <<"vertsplit_incr">>
  /\ pc' = "done"
  /\ UNCHANGED <<Y, Z, offset, v>>

\* horzcat / vertcat of the vector a split has just returned
HorzcatOfSplit ==
  /\ pc = "done"
  /\ Len(op) = 1
  /\ ret.kind = "list"
  /\ v' = ret.list
  /\ \E pol \in EmptyPolicies : ret' = horzcat(ret.list, pol)
  /\ op' = Append(op, "horzcat")
  /\ UNCHANGED <<pc, X, Y, Z, offset, incr>>

VertcatOfSplit ==
  /\ pc = "done"
  /\ Len(op) = 1
  /\ ret.kind = "list"
  /\ v' = ret.list
  /\ \E pol \in EmptyPolicies : ret' = vertcat(ret.list, pol)
  /\ op' = Append(op, "vertcat")
  /\ UNCHANGED <<pc, X, Y, Z, offset, incr>>

Next ==
  \/ HorzsplitOffset
  \/ HorzsplitIncr
  \/ VertsplitOffset
  \/ VertsplitIncr
  \/ HorzcatOfSplit
  \/ VertcatOfSplit
  \/ Reset

Spec == Init /\ [][Next]_vars

(***************************************************************************)
(* Properties of the splits.                                               *)
(***************************************************************************)
\* a valid offset sequence for a dimension of size n: starts at 0, never
\* decreases, ends at n
ValidOffsets(o, n) ==
  /\ Len(o) >= 1
  /\ o[1] = 0
  /\ NonDecreasing(o)
  /\ o[Len(o)] = n

HorzRoundTripDone == pc = "done" /\ op = <<"horzsplit", "horzcat">> /\ ValidOffsets(offset, X.size2)
VertRoundTripDone == pc = "done" /\ op = <<"vertsplit", "vertcat">> /\ ValidOffsets(offset, X.size1)

\* C1: horzcat(horzsplit(X, O)) = X for every matrix X and every valid
\* offset sequence O over X's columns, and vertcat(vertsplit(X, O)) = X for
\* every valid offset sequence over X's rows: same shape, same sparsity
\* pattern, same elements.
C1_RoundTrip ==
  (HorzRoundTripDone \/ VertRoundTripDone) => (ret.kind = "value" /\ ret.val = X)

\* the round trip of a split into at least one group
C1_RoundTripOfGroups ==
  ((HorzRoundTripDone \/ VertRoundTripDone) /\ Len(offset) >= 2)
    => (ret.kind = "value" /\ ret.val = X)

C1_Witness ==
  /\ HorzRoundTripDone
  /\ offset = <<0, 1, 2>>
  /\ Cardinality(Sparsity(X)) = 3
  /\ ret.val = X

IncrCallDone(name) == pc = "done" /\ op = <<name>>

\* C2: horzsplit(X, incr) and vertsplit(X, incr) with incr < 1 fail with
\* InvalidArgument before any work: no size is read, no offsets are built,
\* the explicit-offset split is not invoked, nothing is returned.
C2_InvalidIncrement ==
  ((IncrCallDone("horzsplit_incr") \/ IncrCallDone("vertsplit_incr")) /\ incr < 1)
    => /\ ret.kind = "error"
       /\ ret.err = "InvalidArgument"
       /\ ret.calls = <<>>
       /\ ret.list = <<>>

C2_Witness ==
  /\ IncrCallDone("horzsplit_incr")
  /\ incr = 0
  /\ X.size2 = 2
  /\ ret.kind = "error"

\* range(0, n, inc) ++ [n], written out: the multiples of inc below n, then n
ExplicitOffsets(n, inc) ==
  LET m == Cardinality({ k \in 0 .. n - 1 : k % inc = 0 })
  IN  [i \in 1 .. m + 1 |-> IF i <= m THEN (i - 1) * inc ELSE n]

\* C5: for incr >= 1, horzsplit(X, incr) returns the list that the explicit
\* form returns for range(0, X.cols, incr) ++ [X.cols], and vertsplit(X, incr)
\* the list that it returns for range(0, X.rows, incr) ++ [X.rows].
C5_IncrementEquivalence ==
  /\ (IncrCallDone("horzsplit_incr") /\ incr >= 1)
       => LET e == horzsplit(X, ExplicitOffsets(X.size2, incr))
          IN  ret.kind = e.kind /\ ret.list = e.list /\ ret.err = e.err
  /\ (IncrCallDone("vertsplit_incr") /\ incr >= 1)
       => LET e == vertsplit(X, ExplicitOffsets(X.size1, incr))
          IN  ret.kind = e.kind /\ ret.list = e.list /\ ret.err = e.err

C5_Witness ==
  /\ IncrCallDone("vertsplit_incr")
  /\ incr = 1
  /\ X.size1 = 2
  /\ Len(ret.list) = 2

\* the offsets the increment form handed to the explicit-offset form
HandedOffsets == ret.calls[Len(ret.calls)].ints

CeilDiv(n, d) == (n + (d - 1)) \div d

IncrementGroups(n, size(_)) ==
  LET o == HandedOffsets
      k == Len(ret.list)
  IN  /\ Names(ret.calls)[Len(ret.calls)] \in {"zz_horzsplit", "zz_vertsplit"}
      /\ o[1] = 0
      /\ \A i \in 1 .. Len(o) - 1 : o[i] < o[i + 1]
      /\ o[Len(o)] = n
      /\ ret.kind = "list"
      /\ k = CeilDiv(n, incr)
      /\ \A i \in 1 .. k - 1 : size(ret.list[i]) = incr
      /\ k >= 1 => (1 <= size(ret.list[k]) /\ size(ret.list[k]) <= incr)
      /\ (incr >= n /\ n > 0) => ret.list = <<X>>
      /\ n = 0 => (o = <<0>> /\ k = 0)

Size1(m) == m.size1
Size2(m) == m.size2

\* C10: for every size n >= 0 and incr >= 1 the offsets handed to the
\* explicit form start with 0, increase strictly and end with n; the split
\* has ceil(n / incr) groups, all of incr columns (rows) but the last, which
\* has 1 .. incr; incr >= n > 0 gives the one group X; n = 0 gives the
\* offsets [0] and no group.
C10_DerivedOffsets ==
  /\ (IncrCallDone("horzsplit_incr") /\ incr >= 1) => IncrementGroups(X.size2, Size2)
  /\ (IncrCallDone("vertsplit_incr") /\ incr >= 1) => IncrementGroups(X.size1, Size1)

C10_Witness ==
  /\ IncrCallDone("horzsplit_incr")
  /\ incr = 2
  /\ X.size2 = 2
  /\ HandedOffsets = <<0, 2>>
  /\ ret.list = <<X>>

C10_WitnessEmpty ==
  /\ IncrCallDone("horzsplit_incr")
  /\ incr = 1
  /\ X.size2 = 0
  /\ ret.list = <<>>

(***************************************************************************)
(* The algebra calls: concatenation, block diagonal, products.             *)
(***************************************************************************)
HorzcatList ==
  /\ pc = "idle"
  /\ \E w \in Lists, pol \in EmptyPolicies :
       /\ v' = w
       /\ ret' = horzcat(w, pol)
  /\ op' = <<"horzcat">>
  /\ pc' = "done"
  /\ UNCHANGED <<X, Y, Z, offset, incr>>

HorzcatPair ==
  /\ pc = "idle"
  /\ \E x \in Mats, y \in FullOrEmpty, pol \in EmptyPolicies :
       /\ X' = x
       /\ Y' = y
       /\ ret' = horzcat2(x, y, pol)
  /\ op' = <<"horzcat2">>
  /\ pc' = "done"
  /\ UNCHANGED <<Z, offset, incr, v>>

VertcatList ==
  /\ pc = "idle"
  /\ \E w \in Lists, pol \in EmptyPolicies :
       /\ v' = w
       /\ ret' = vertcat(w, pol)
  /\ op' = <<"vertcat">>
  /\ pc' = "done"
  /\ UNCHANGED <<X, Y, Z, offset, incr>>

VertcatPair ==
  /\ pc = "idle"
  /\ \E x \in Mats, y \in FullOrEmpty, pol \in EmptyPolicies :
       /\ X' = x
       /\ Y' = y
       /\ ret' = vertcat2(x, y, pol)
  /\ op' = <<"vertcat2">>
  /\ pc' = "done"
  /\ UNCHANGED <<Z, offset, incr, v>>

BlkdiagList ==
  /\ pc = "idle"
  /\ \E w \in Lists, pol \in EmptyPolicies :
       /\ v' = w
       /\ ret' = blkdiag(w, pol)
  /\ op' = <<"blkdiag">>
  /\ pc' = "done"
  /\ UNCHANGED <<X, Y, Z, offset, incr>>

BlkdiagPair ==
  /\ pc = "idle"
  /\ \E x \in Mats, y \in FullOrEmpty, pol \in EmptyPolicies :
       /\ X' = x
       /\ Y' = y
       /\ ret' = blkdiag2(x, y, pol)
  /\ op' = <<"blkdiag2">>
  /\ pc' = "done"
  /\ UNCHANGED <<Z, offset, incr, v>>

Mul2 ==
  /\ pc = "idle"
  /\ \E x \in Mats, y \in FullOrEmpty :
       /\ X' = x
       /\ Y' = y
       /\ ret' = mul2(x, y)
  /\ op' = <<"mul2">>
  /\ pc' = "done"
  /\ UNCHANGED <<Z, offset, incr, v>>

Mul3 ==
  /\ pc = "idle"
  /\ \E x \in Dense, y \in Dense, z \in Mats :
       /\ X' = x
       /\ Y' = y
       /\ Z' = z
       /\ ret' = mul3(x, y, z)
  /\ op' = <<"mul3">>
  /\ pc' = "done"
  /\ UNCHANGED <<offset, incr, v>>

MulList ==
  /\ pc = "idle"
  /\ \E w \in Lists :
       /\ v' = w
       /\ ret' = mul(w)
  /\ op' = <<"mul">>
  /\ pc' = "done"
  /\ UNCHANGED <<X, Y, Z, offset, incr>>

NextAlg ==
  \/ HorzcatList
  \/ HorzcatPair
  \/ VertcatList
  \/ VertcatPair
  \/ BlkdiagList
  \/ BlkdiagPair
  \/ Mul2
  \/ Mul3
  \/ MulList
  \/ Reset

SpecAlg == Init /\ [][NextAlg]_vars

(***************************************************************************)
(* Properties of the algebra calls.                                        *)
(***************************************************************************)
Done(name) == pc = "done" /\ op = <<name>>

\* C3: mul of the empty list fails with InvalidArgument before any element
\* is read and before the product primitive is invoked; no value comes back.
C3_MulEmptyList ==
  (Done("mul") /\ v = <<>>)
    => /\ ret.kind = "error"
       /\ ret.err = "InvalidArgument"
       /\ ret.calls = <<>>
       /\ ret.val = NoMat

C3_Witness == Done("mul") /\ v = <<>> /\ ret.kind = "error"

\* every product of the fold meets matching inner dimensions
Chain(w) == \A i \in 1 .. Len(w) - 1 : w[i].size2 = w[i + 1].size1

RECURSIVE LeftFold(_, _)
\* ( ... ((w[1] * w[2]) * w[3]) ... ) * w[n]
LeftFold(w, n) == IF n = 1 THEN w[1] ELSE MtimesMat(LeftFold(w, n - 1), w[n])

IsProduct(c) == c.fn = "zz_mtimes"

\* C4: for a non-empty list of shape-compatible matrices mul(list) is the
\* left-to-right fold: the binary product is applied once per further
\* element, in list order, the running result on the left; a one-element
\* list is returned as it is, no product performed.
C4_LeftFold ==
  (Done("mul") /\ Len(v) >= 1 /\ Chain(v))
    => /\ ret.kind = "value"
       /\ ret.val = LeftFold(v, Len(v))
       /\ LET prods == SelectSeq(ret.calls, IsProduct)
          IN  /\ Len(prods) = Len(v) - 1
              /\ \A i \in 1 .. Len(prods) : prods[i].mats = <<LeftFold(v, i), v[i + 1]>>

C4_Witness ==
  /\ Done("mul")
  /\ Len(v) = 3
  /\ v[1].size1 = 1 /\ v[1].size2 = 2
  /\ v[2].size1 = 2 /\ v[2].size2 = 2
  /\ v[3].size1 = 2 /\ v[3].size2 = 1
  /\ ret.kind = "value"
  /\ ret.val = MtimesMat(MtimesMat(v[1], v[2]), v[3])

C4_WitnessSingle ==
  /\ Done("mul")
  /\ Len(v) = 1
  /\ v[1].size1 = 2
  /\ ret.val = v[1]

\* C6: horzcat(x, y), vertcat(x, y) and blkdiag(x, y) end as the list forms
\* end for [x, y]: the same value, or the same error.
C6_PairAsList ==
  \A pol \in EmptyPolicies :
    /\ Done("horzcat2") => ret = horzcat(<<X, Y>>, pol)
    /\ Done("vertcat2") => ret = vertcat(<<X, Y>>, pol)
    /\ Done("blkdiag2") => ret = blkdiag(<<X, Y>>, pol)

C6_Witness ==
  /\ Done("horzcat2")
  /\ X.size1 = 2 /\ X.size2 = 1 /\ Y.size1 = 2 /\ Y.size2 = 2
  /\ Cardinality(Sparsity(X)) = 1
  /\ ret.kind = "value"

C6_WitnessError ==
  /\ Done("vertcat2")
  /\ X.size2 # Y.size2
  /\ ret.kind = "error"

ShapeMismatch == ret.kind = "error" /\ ret.err = "ShapeMismatch" /\ ret.val = NoMat

\* C7: operands of incompatible shape end in ShapeMismatch and never in a
\* value: horzcat with unequal row counts, vertcat with unequal column
\* counts, mul(X, Y) with X.cols # Y.rows, and mul(list) as a whole when
\* some step of the fold meets unequal inner dimensions.
C7_ShapeMismatch ==
  /\ (Done("horzcat") /\ \E i, j \in 1 .. Len(v) : v[i].size1 # v[j].size1) => ShapeMismatch
  /\ (Done("horzcat2") /\ X.size1 # Y.size1) => ShapeMismatch
  /\ (Done("vertcat") /\ \E i, j \in 1 .. Len(v) : v[i].size2 # v[j].size2) => ShapeMismatch
  /\ (Done("vertcat2") /\ X.size2 # Y.size2) => ShapeMismatch
  /\ (Done("mul2") /\ X.size2 # Y.size1) => ShapeMismatch
  /\ (Done("mul") /\ Len(v) >= 1 /\ ~Chain(v)) => ShapeMismatch

C7_Witness ==
  /\ Done("mul")
  /\ Len(v) = 3
  /\ v[1].size2 = v[2].size1
  /\ v[2].size2 # v[3].size1
  /\ ret.kind = "error"

C7_WitnessHorzcat ==
  /\ Done("horzcat2")
  /\ X.size1 = 1 /\ Y.size1 = 2
  /\ ret.kind = "error"

RECURSIVE DenseDot(_, _, _, _, _)
\* (x*y)[i, j] over the first n inner indices, absent entries being 0
DenseDot(x, y, i, j, n) ==
  IF n = 0 THEN 0 ELSE DenseDot(x, y, i, j, n - 1) + (Elem(x, i, n - 1) * Elem(y, n - 1, j))

\* C8: for X.cols = Y.rows and shape(X*Y) = shape(Z), mul(X, Y, Z) has the
\* shape and exactly the sparsity pattern of Z, and at every position p of
\* that pattern the value Z[p] + (X*Y)[p].
C8_MaskedAccumulate ==
  (Done("mul3") /\ X.size2 = Y.size1 /\ X.size1 = Z.size1 /\ Y.size2 = Z.size2)
    => /\ ret.kind = "value"
       /\ ret.val.size1 = Z.size1
       /\ ret.val.size2 = Z.size2
       /\ Sparsity(ret.val) = Sparsity(Z)
       /\ \A p \in Sparsity(Z) : ret.val.nz[p] = Z.nz[p] + DenseDot(X, Y, p[1], p[2], X.size2)

C8_Witness ==
  /\ Done("mul3")
  /\ X.size1 = 2 /\ X.size2 = 2 /\ Y.size1 = 2 /\ Y.size2 = 2
  /\ Z.size1 = 2 /\ Z.size2 = 2
  /\ Sparsity(Z) = {<<0, 0>>}
  /\ Sparsity(ret.val) = {<<0, 0>>}
  /\ ret.val.nz[<<0, 0>>] = 8

\* rows / columns of the matrices of w before the i-th
RowsBefore(w, i) == Cardinality(UNION { { <<k, r>> : r \in 1 .. w[k].size1 } : k \in 1 .. i - 1 })
ColsBefore(w, i) == Cardinality(UNION { { <<k, c>> : c \in 1 .. w[k].size2 } : k \in 1 .. i - 1 })

BlockDiagonal(w) ==
  /\ ret.kind = "value"
  /\ ret.val.size1 = RowsBefore(w, Len(w) + 1)
  /\ ret.val.size2 = ColsBefore(w, Len(w) + 1)
  /\ \A i \in 1 .. Len(w) : \A p \in Cells(w[i].size1, w[i].size2) :
       LET q == <<p[1] + RowsBefore(w, i), p[2] + ColsBefore(w, i)>>
       IN  /\ p \in Sparsity(w[i]) <=> q \in Sparsity(ret.val)
           /\ p \in Sparsity(w[i]) => ret.val.nz[q] = w[i].nz[p]
  /\ \A q \in Sparsity(ret.val) : \E i \in 1 .. Len(w) :
       /\ RowsBefore(w, i) <= q[1] /\ q[1] < RowsBefore(w, i + 1)
       /\ ColsBefore(w, i) <= q[2] /\ q[2] < ColsBefore(w, i + 1)

\* C9: blkdiag of a list of matrices of any shapes has the summed rows and
\* the summed columns; its i-th diagonal block, at the rows and columns of
\* the earlier inputs together, is input i with its values and pattern; no
\* position outside the diagonal blocks is in the pattern; no combination
\* of shapes is rejected.
C9_BlockDiagonal ==
  /\ (Done("blkdiag") /\ Len(v) >= 1) => BlockDiagonal(v)
  /\ Done("blkdiag2") => BlockDiagonal(<<X, Y>>)

C9_Witness ==
  /\ Done("blkdiag2")
  /\ X.size1 = 2 /\ X.size2 = 1 /\ Y.size1 = 1 /\ Y.size2 = 2
  /\ Cardinality(Sparsity(X)) = 1
  /\ ret.val.size1 = 3 /\ ret.val.size2 = 3

C9_WitnessList ==
  /\ Done("blkdiag")
  /\ Len(v) = 3
  /\ ret.val.size1 = 5

====
